---- MODULE Spec2Model ----
(***************************************************************************)
(* Streaming PGN annotation parser of arunim1/acl.                         *)
(*                                                                         *)
(* The model follows src/main.py (stream_decompress_and_process and        *)
(* process_game_moves) and src/chess_parser.py (ChessParser).              *)
(*                                                                         *)
(* Text is modelled as TLA+ strings, one character per byte / code point.  *)
(* Four characters are reserved to stand for the non-ASCII material the    *)
(* decoder can meet:                                                       *)
(*     "^"  the byte 0xC2 (lead byte of a two-byte UTF-8 sequence)         *)
(*     "~"  the byte 0xA0 (continuation byte)                              *)
(*     "_"  the code point U+00A0 (NO-BREAK SPACE, encoded 0xC2 0xA0)      *)
(*     "@"  the code point U+FFFD (REPLACEMENT CHARACTER)                  *)
(* Evaluations (Python floats) are fixed-point integers in hundredths of a *)
(* pawn: 0.2 is 20, the mate sentinel 10.0 is 1000.                        *)
(***************************************************************************)
EXTENDS Integers, Sequences, FiniteSets, TLC

(***************************************************************************)
(* Characters and elementary string functions (Python str methods).        *)
(***************************************************************************)
ByteC2 == "^"
ByteA0 == "~"
NBSP == "_"
REPLACEMENT == "@"

Digits == {"0", "1", "2", "3", "4", "5", "6", "7", "8", "9"}

\* str.isspace() / regex \s on the modelled alphabet
Whitespace == {" ", "\t", "\r", "\n", NBSP}

Ch(s, i) == SubSeq(s, i, i)

Min(a, b) == IF a < b THEN a ELSE b

\* max() that lets its second argument through
MaxUnclamped(a, b) == b

Max(a, b) == IF a > b THEN a ELSE b

DigitVal(c) ==
  CASE c = "0" -> 0 [] c = "1" -> 1 [] c = "2" -> 2 [] c = "3" -> 3
    [] c = "4" -> 4 [] c = "5" -> 5 [] c = "6" -> 6 [] c = "7" -> 7
    [] c = "8" -> 8 [] c = "9" -> 9

\* first index j >= i whose character is in set, or 0 when there is none
FirstIn(s, i, set) ==
  IF \E j \in i..Len(s) : Ch(s, j) \in set
  THEN CHOOSE j \in i..Len(s) :
         Ch(s, j) \in set /\ \A k \in i..(j - 1) : Ch(s, k) \notin set
  ELSE 0

\* last index j <= i whose character is not in set, or 0 when there is none
LastNotIn(s, i, set) ==
  IF \E j \in 1..i : Ch(s, j) \notin set
  THEN CHOOSE j \in 1..i :
         Ch(s, j) \notin set /\ \A k \in (j + 1)..i : Ch(s, k) \in set
  ELSE 0

\* first index j >= i whose character is not in set, Len(s) + 1 if none
FirstNotIn(s, i, set) ==
  IF \E j \in i..Len(s) : Ch(s, j) \notin set
  THEN CHOOSE j \in i..Len(s) :
         Ch(s, j) \notin set /\ \A k \in i..(j - 1) : Ch(s, k) \in set
  ELSE IF i > Len(s) THEN i ELSE Len(s) + 1

\* first index j >= i with s[j] = c, or 0 when there is none (str.find)
IndexOf(s, c, i) == FirstIn(s, i, {c})

\* first index j >= i whose character is not whitespace (Len(s)+1 if none)
SkipWs(s, i) == FirstNotIn(s, i, Whitespace)

\* last index j <= i whose character is not whitespace (0 if none)
SkipWsBack(s, i) == LastNotIn(s, i, Whitespace)

\* first index j >= i whose character is not a digit
SkipDigits(s, i) == FirstNotIn(s, i, Digits)

StripTo(s, a, b) == IF a > b THEN "" ELSE SubSeq(s, a, b)

\* str.strip()
Strip(s) == StripTo(s, SkipWs(s, 1), SkipWsBack(s, Len(s)))

\* str.startswith(p)
StartsWith(s, p) == Len(s) >= Len(p) /\ SubSeq(s, 1, Len(p)) = p

\* the literal lit occurs in s at index i
LitAt(s, i, lit) ==
  i >= 1 /\ i + Len(lit) - 1 <= Len(s) /\ SubSeq(s, i, i + Len(lit) - 1) = lit

\* `sub in s`
Contains(s, sub) == \E i \in 1..(Len(s) - Len(sub) + 1) : LitAt(s, i, sub)

\* str.split(c) for a one-character separator: a tuple of strings
RECURSIVE Split(_, _)
SplitAt(s, c, k) ==
  IF k = 0 THEN <<s>>
  ELSE <<SubSeq(s, 1, k - 1)>> \o Split(SubSeq(s, k + 1, Len(s)), c)

Split(s, c) == SplitAt(s, c, IndexOf(s, c, 1))

(***************************************************************************)
(* Results of operations that can raise: ok = FALSE is a Python exception  *)
(* (ValueError, IndexError or TypeError) propagating out of the call.      *)
(***************************************************************************)
Ok(v) == [ok |-> TRUE, val |-> v]

Raise == [ok |-> FALSE, val |-> 0]

\* value of the digit string s[i..j] (0 when it is empty)
RECURSIVE DigitsValue(_, _, _)
DigitsValue(s, i, j) ==
  IF j < i THEN 0
  ELSE 10 * DigitsValue(s, i, j - 1) + DigitVal(Ch(s, j))

\* length and value of an optional leading sign
SignLen(s) == IF StartsWith(s, "-") \/ StartsWith(s, "+") THEN 1 ELSE 0

Sign(s) == IF StartsWith(s, "-") THEN -1 ELSE 1

IntDigits(s, d) ==
  IF d > Len(s) \/ SkipDigits(s, d) # Len(s) + 1 THEN Raise
  ELSE Ok(Sign(s) * DigitsValue(s, d, Len(s)))

\* int(text): surrounding whitespace, an optional sign, one or more digits;
\* anything else raises ValueError.
IntOf(s) == IntDigits(s, 1 + SignLen(s))

PyInt(text) == IntOf(Strip(text))

\* the first two decimals s[g..f-1] in hundredths
Frac(s, g, f) ==
  IF f = g THEN 0
  ELSE IF f = g + 1 THEN 10 * DigitVal(Ch(s, g))
  ELSE DigitsValue(s, g, g + 1)

\* integer digits s[d..e-1], decimals s[g..f-1], and f must end the text
FloatVal(s, d, e, g, f) ==
  IF f # Len(s) + 1 \/ (e - d) + (f - g) = 0 \/ f - g > 2 THEN Raise
  ELSE Ok(Sign(s) * (100 * DigitsValue(s, d, e - 1) + Frac(s, g, f)))

FloatInt(s, d, e) ==
  IF e <= Len(s) /\ Ch(s, e) = "."
  THEN FloatVal(s, d, e, e + 1, SkipDigits(s, e + 1))
  ELSE FloatVal(s, d, e, e, e)

FloatOf(s) == FloatInt(s, 1 + SignLen(s), SkipDigits(s, 1 + SignLen(s)))

\* float(text) in hundredths: surrounding whitespace, an optional sign,
\* digits with an optional decimal point and at most two decimals (the
\* evaluations of the modelled inputs; exponents, inf and nan are not part
\* of the modelled alphabet); anything else raises ValueError.
PyFloat(text) == FloatOf(Strip(text))

(***************************************************************************)
(* Value converters.                                                       *)
(***************************************************************************)
\* the int() of every part of a split
IntParts(parts) == [i \in 1..Len(parts) |-> PyInt(parts[i])]

ClockOfInts(v) ==
  IF \E i \in 1..Len(v) : ~v[i].ok THEN Raise
  ELSE IF Len(v) = 2 THEN Ok(v[1].val * 60 + v[2].val)
  ELSE Ok(v[1].val * 3600 + v[2].val * 60 + v[3].val)

ClockOfParts(parts) ==
  IF Len(parts) \in {2, 3} THEN ClockOfInts(IntParts(parts)) ELSE Ok(0)

\* a clock_to_seconds that reads a text without a colon as seconds
clock_to_seconds_bare(clock_str) ==
  IF Len(Split(clock_str, ":")) = 1 THEN PyInt(clock_str)
  ELSE ClockOfParts(Split(clock_str, ":"))

\* main.clock_to_seconds / ChessParser.clock_to_seconds
clock_to_seconds(clock_str) == ClockOfParts(Split(clock_str, ":"))

MateEval == 1000

\* a mate score that loses its sign
parse_eval_unsigned(eval_str) ==
  IF StartsWith(eval_str, "#") THEN Ok(MateEval) ELSE PyFloat(eval_str)

\* ChessParser.parse_eval
parse_eval(eval_str) ==
  IF StartsWith(eval_str, "#")
  THEN Ok(IF StartsWith(eval_str, "#-") THEN -MateEval ELSE MateEval)
  ELSE PyFloat(eval_str)

TimeControlOfInts(v) ==
  IF ~v[1].ok \/ ~v[2].ok THEN Raise ELSE Ok(<<v[1].val, v[2].val>>)

TimeControlOfParts(parts) ==
  IF Len(parts) < 2 THEN Raise ELSE TimeControlOfInts(IntParts(parts))

\* ChessParser.parse_time_control, and the same three lines of
\* main.process_game_moves: parts[1] of a one-element split is an IndexError
parse_time_control(tc_str) == TimeControlOfParts(Split(tc_str, "+"))

\* Move Extractor: the regular expression move_pattern / MOVE_PATTERN
\*   (\d+)\.\s*([^\{]+)\s*\{\s*\[%eval\s*([^\]]*)\]\s*\[%clk\s*([^\]]*)\]\s*\}\s*
\*   ([^\{]*)\s*\{\s*\[%eval\s*([^\]]*)\]\s*\[%clk\s*([^\]]*)\]\s*\}
\* Every quantifier is greedy and is followed by a literal its character
\* class excludes (or by \s* and such a literal), so the first match the
\* backtracking engine finds at a start position is the greedy one and
\* there is a match exactly when the greedy attempt succeeds.  The matcher
\* below walks the pattern left to right, one operator per piece.
NoMatch == [ok |-> FALSE]

\* \s*\} at t, after the captures s[q..r-1] and s[q2..r2-1]
BracesClose(s, q, r, q2, r2, t) ==
  IF ~LitAt(s, t, "}") THEN NoMatch
  ELSE [ok |-> TRUE, eval |-> SubSeq(s, q, r - 1),
        clk |-> SubSeq(s, q2, r2 - 1), end |-> t + 1]

\* ([^\]]*)\] from q2: r2 is the first "]"
BracesClkEnd(s, q, r, q2, r2) ==
  IF r2 = 0 THEN NoMatch
  ELSE BracesClose(s, q, r, q2, r2, SkipWs(s, r2 + 1))

\* \[%clk\s* at p2
BracesClk(s, q, r, p2) ==
  IF ~LitAt(s, p2, "[%clk") THEN NoMatch
  ELSE BracesClkEnd(s, q, r, SkipWs(s, p2 + 5),
                    IndexOf(s, "]", SkipWs(s, p2 + 5)))

\* ([^\]]*)\]\s* from q: r is the first "]"
BracesEvalEnd(s, q, r) ==
  IF r = 0 THEN NoMatch ELSE BracesClk(s, q, r, SkipWs(s, r + 1))

\* \[%eval\s* at p
BracesEval(s, p) ==
  IF ~LitAt(s, p, "[%eval") THEN NoMatch
  ELSE BracesEvalEnd(s, SkipWs(s, p + 6), IndexOf(s, "]", SkipWs(s, p + 6)))

\* \{\s*\[%eval\s*([^\]]*)\]\s*\[%clk\s*([^\]]*)\]\s*\} with the "{" at b:
\* the two captured texts and the index after the closing "}"
MatchBraces(s, b) == BracesEval(s, SkipWs(s, b + 1))

\* group 2, \s*([^\{]+)\s* between k and the "{" at b1: the greedy \s* gives
\* back one character when nothing else is left for the group
WhiteStart(s, k, b1) == Min(SkipWs(s, k), b1 - 1)

UnitDone(s, i, j, b1, m1, u, b2, m2) ==
  IF ~m2.ok THEN NoMatch
  ELSE [ok |-> TRUE,
        move_number |-> SubSeq(s, i, j - 1),
        white_move |-> SubSeq(s, WhiteStart(s, j + 1, b1), b1 - 1),
        white_eval |-> m1.eval,
        white_clock |-> m1.clk,
        black_move |-> SubSeq(s, u, b2 - 1),
        black_eval |-> m2.eval,
        black_clock |-> m2.clk,
        end |-> m2.end]

\* \s*([^\{]*)\s*\{ from u: b2 is the next "{"
UnitBlack(s, i, j, b1, m1, u, b2) ==
  IF b2 = 0 THEN NoMatch
  ELSE UnitDone(s, i, j, b1, m1, u, b2, MatchBraces(s, b2))

UnitWhite(s, i, j, b1, m1) ==
  IF ~m1.ok THEN NoMatch
  ELSE UnitBlack(s, i, j, b1, m1, SkipWs(s, m1.end),
                 IndexOf(s, "{", SkipWs(s, m1.end)))

\* \s*([^\{]+)\s*\{ from j + 1: b1 is the next "{"
UnitMove(s, i, j, b1) ==
  IF b1 = 0 \/ b1 = j + 1 THEN NoMatch
  ELSE UnitWhite(s, i, j, b1, MatchBraces(s, b1))

\* (\d+)\. from i: j is the index after the digits
UnitNumber(s, i, j) ==
  IF j = i \/ ~LitAt(s, j, ".") THEN NoMatch
  ELSE UnitMove(s, i, j, IndexOf(s, "{", j + 1))

\* a match of the whole pattern starting exactly at index i
MatchAt(s, i) == UnitNumber(s, i, SkipDigits(s, i))

\* list(pattern.finditer(s)) scanning from index i: non-overlapping matches,
\* leftmost first.  A match starts with a digit, so the scan goes from one
\* digit to the next.
RECURSIVE FindIterFrom(_, _)
FindNext(s, i, m) ==
  IF m.ok THEN <<m>> \o FindIterFrom(s, m.end)
  ELSE FindIterFrom(s, i + 1)

FindAtDigit(s, i) == IF i = 0 THEN <<>> ELSE FindNext(s, i, MatchAt(s, i))

FindIterFrom(s, i) == FindAtDigit(s, FirstIn(s, i, Digits))

FindIter(s) == FindIterFrom(s, 1)

\* every match of every accumulated move line, in order:
\*   for move_line in moves: for match in pattern.finditer(move_line)
RECURSIVE AllMatches(_)
AllMatches(moves) ==
  IF moves = <<>> THEN <<>>
  ELSE FindIter(Head(moves)) \o AllMatches(Tail(moves))

(***************************************************************************)
(* Row Emitter.  A row is one line of the CSV file, named by its header    *)
(* ['Move Number', 'Eval', 'Centipawn Loss', 'Time Left', 'Time Spent'].   *)
(* Optional[int] is <<>> for None and <<v>> for v.  A dict is a function   *)
(* whose domain is its key set.                                            *)
(***************************************************************************)
None == <<>>

Some(v) == <<v>>

Row(label, eval, loss, left, spent) ==
  [MoveNumber |-> label, Eval |-> eval, CentipawnLoss |-> loss,
   TimeLeft |-> left, TimeSpent |-> spent]

\* dict.get(key, default)
DictGet(d, key, default) == IF key \in DOMAIN d THEN d[key] ELSE default

\* d[key] = value
DictSet(d, key, value) ==
  [k \in (DOMAIN d) \cup {key} |-> IF k = key THEN value ELSE d[k]]

EmptyDict == [k \in {} |-> 0]

\* time spent on a move: the side's previous clock (the initial time on its
\* first move) minus its clock, plus the increment
TimeSpentOf(prev_clock, initial_time, clock_seconds, increment) ==
  (IF prev_clock = None THEN initial_time - clock_seconds
   ELSE prev_clock[1] - clock_seconds) + increment

\* main.py lines 82-88: the mate handling and float()
MainEval(eval_text) ==
  IF StartsWith(eval_text, "#")
  THEN PyFloat(IF ~StartsWith(eval_text, "#-") THEN "10" ELSE "-10")
  ELSE PyFloat(eval_text)

MainDefaultTimeControl == "180+2"

\* MainAppend with Black's row appended before White's
MainAppendBlackFirst(d, m, tc, black_move, wcs, bcs, we, be) ==
  [buf |->
     IF black_move # ""
     THEN d.buf \o
          << Row(m.move_number \o "b", be, Max(0, be - we), bcs,
                 IF m.black_clock # ""
                 THEN TimeSpentOf(d.prev_black_clock, tc[1], bcs, tc[2])
                 ELSE 0),
             Row(m.move_number \o "w", we, Max(0, d.prev_eval - we), wcs,
                 TimeSpentOf(d.prev_white_clock, tc[1], wcs, tc[2])) >>
     ELSE Append(d.buf,
            Row(m.move_number \o "w", we, Max(0, d.prev_eval - we), wcs,
                TimeSpentOf(d.prev_white_clock, tc[1], wcs, tc[2]))),
   prev_eval |-> IF black_move # "" THEN be ELSE we,
   prev_white_clock |-> Some(wcs),
   prev_black_clock |-> IF m.black_clock # "" THEN Some(bcs)
                        ELSE d.prev_black_clock,
   raised |-> FALSE]

\* main.py lines 90-116: the rows are appended and the prev_ locals updated
MainAppend(d, m, tc, black_move, wcs, bcs, we, be) ==
  [buf |->
     IF black_move # ""
     THEN d.buf \o
          << Row(m.move_number \o "w", we, Max(0, d.prev_eval - we), wcs,
                 TimeSpentOf(d.prev_white_clock, tc[1], wcs, tc[2])),
             Row(m.move_number \o "b", be, Max(0, be - we), bcs,
                 IF m.black_clock # ""
                 THEN TimeSpentOf(d.prev_black_clock, tc[1], bcs, tc[2])
                 ELSE 0) >>
     ELSE Append(d.buf,
            Row(m.move_number \o "w", we, Max(0, d.prev_eval - we), wcs,
                TimeSpentOf(d.prev_white_clock, tc[1], wcs, tc[2]))),
   prev_eval |-> IF black_move # "" THEN be ELSE we,
   prev_white_clock |-> Some(wcs),
   prev_black_clock |-> IF m.black_clock # "" THEN Some(bcs)
                        ELSE d.prev_black_clock,
   raised |-> FALSE]

\* main.py lines 58-116 for one match, the conversions done: wcs, bcs, we
\* and be are results that may have raised
MainRows(d, m, tc, black_move, wcs, bcs, we, be) ==
  IF ~wcs.ok \/ ~bcs.ok \/ ~we.ok \/ ~be.ok
  THEN [d EXCEPT !.raised = TRUE]
  ELSE IF black_move # "" /\ m.black_eval = ""
  THEN \* max(0, '' - prev_eval) is a TypeError, after the white row
       [d EXCEPT !.buf = Append(@,
                   Row(m.move_number \o "w", we.val,
                       Max(0, d.prev_eval - we.val), wcs.val,
                       TimeSpentOf(d.prev_white_clock, tc[1], wcs.val, tc[2]))),
                 !.prev_eval = we.val,
                 !.raised = TRUE]
  ELSE MainAppend(d, m, tc, black_move, wcs.val, bcs.val, we.val, be.val)

\* main.process_game_moves, body of the inner loop for one match m.
\* d carries csv_buffer, the three prev_ locals and whether an exception
\* has propagated; tc is <<initial_time, increment>>.
MainUnit(d, m, tc) ==
  MainRows(d, m, tc, Strip(m.black_move),
           clock_to_seconds(m.white_clock),
           IF m.black_clock # "" THEN clock_to_seconds(m.black_clock)
           ELSE Ok(0),
           MainEval(m.white_eval),
           IF m.black_eval # "" THEN MainEval(m.black_eval) ELSE Ok(0))

RECURSIVE MainLoop(_, _, _)
MainLoop(d, ms, tc) ==
  IF ms = <<>> \/ d.raised THEN d
  ELSE MainLoop(MainUnit(d, Head(ms), tc), Tail(ms), tc)

EmitterResult(d) == [buf |-> d.buf, raised |-> d.raised]

MainEmit(moves, csv_buffer, tc) ==
  IF ~tc.ok THEN [buf |-> csv_buffer, raised |-> TRUE]
  ELSE EmitterResult(
         MainLoop([buf |-> csv_buffer, prev_eval |-> 0,
                   prev_white_clock |-> None, prev_black_clock |-> None,
                   raised |-> FALSE],
                  AllMatches(moves), tc.val))

\* main.process_game_moves(moves, csv_buffer, metadata): the buffer after
\* the call and whether the call raised
process_game_moves(moves, csv_buffer, metadata) ==
  MainEmit(moves, csv_buffer,
           parse_time_control(
             DictGet(metadata, "TimeControl", MainDefaultTimeControl)))

\* chess_parser.GameState with its field defaults
GameState(moves, metadata, has_clk_eval, reject) ==
  [moves |-> moves, metadata |-> metadata, has_clk_eval |-> has_clk_eval,
   reject |-> reject, prev_white_clock |-> None, prev_black_clock |-> None,
   prev_eval |-> 0]

ParserDefaultTimeControl == "0+0"

\* chess_parser.py lines 84-98: Black's half of a unit, after White's row
ParserBlack(d, m, tc, wcs, we, bcs, be) ==
  IF ~bcs.ok \/ ~be.ok
  THEN [d EXCEPT !.state.prev_eval = we, !.raised = TRUE]
  ELSE [d EXCEPT !.buf = Append(@,
                   Row(m.move_number \o "b", be.val, Max(0, be.val - we),
                       bcs.val,
                       TimeSpentOf(d.state.prev_black_clock, tc[1], bcs.val,
                                   tc[2]))),
                 !.state.prev_eval = be.val,
                 !.state.prev_black_clock = Some(bcs.val),
                 !.state.prev_white_clock = Some(wcs)]

\* chess_parser.py lines 68-100 for one match, White's conversions done
ParserWhite(d, m, tc, wcs, we) ==
  IF ~wcs.ok \/ ~we.ok THEN [d EXCEPT !.raised = TRUE]
  ELSE IF m.black_move = ""
  THEN [d EXCEPT !.buf = Append(@,
                   Row(m.move_number \o "w", we.val,
                       Max(0, d.state.prev_eval - we.val), wcs.val,
                       TimeSpentOf(d.state.prev_white_clock, tc[1], wcs.val,
                                   tc[2]))),
                 !.state.prev_eval = we.val,
                 !.state.prev_white_clock = Some(wcs.val)]
  ELSE ParserBlack(
         [d EXCEPT !.buf = Append(@,
                     Row(m.move_number \o "w", we.val,
                         Max(0, d.state.prev_eval - we.val), wcs.val,
                         TimeSpentOf(d.state.prev_white_clock, tc[1], wcs.val,
                                     tc[2])))],
         m, tc, wcs.val, we.val,
         clock_to_seconds(m.black_clock), parse_eval(m.black_eval))

\* ChessParser.process_moves, body of the inner loop for one match m.
\* d carries the GameState, csv_buffer and whether an exception propagated.
ParserUnit(d, m, tc) ==
  ParserWhite(d, m, tc, clock_to_seconds(m.white_clock),
              parse_eval(m.white_eval))

RECURSIVE ParserLoop(_, _, _)
ParserLoop(d, ms, tc) ==
  IF ms = <<>> \/ d.raised THEN d
  ELSE ParserLoop(ParserUnit(d, Head(ms), tc), Tail(ms), tc)

ParserEmit(d, tc) ==
  IF ~tc.ok THEN [d EXCEPT !.raised = TRUE]
  ELSE ParserLoop(d, AllMatches(d.state.moves), tc.val)

\* ChessParser.process_moves(state, csv_buffer, min_elo): the state and the
\* buffer after the call and whether the call raised
process_moves(state, csv_buffer, min_elo) ==
  IF state.moves = <<>> \/ ~state.has_clk_eval \/ state.reject
  THEN [state |-> state, buf |-> csv_buffer, raised |-> FALSE]
  ELSE ParserEmit([state |-> state, buf |-> csv_buffer, raised |-> FALSE],
                  parse_time_control(
                    DictGet(state.metadata, "TimeControl",
                            ParserDefaultTimeControl)))

(***************************************************************************)
(* Line Assembler: lines 151-159 of stream_decompress_and_process.         *)
(***************************************************************************)
\* bytes.decode('utf-8', errors='replace') of one chunk, on its own: the
\* pair 0xC2 0xA0 is U+00A0, a lead byte without its continuation and a
\* continuation byte without its lead are each U+FFFD
RECURSIVE Decode(_)
DecodeFrom(chunk, k) ==
  IF k = 0 THEN chunk
  ELSE IF LitAt(chunk, k, ByteC2 \o ByteA0)
  THEN SubSeq(chunk, 1, k - 1) \o NBSP
         \o Decode(SubSeq(chunk, k + 2, Len(chunk)))
  ELSE SubSeq(chunk, 1, k - 1) \o REPLACEMENT
         \o Decode(SubSeq(chunk, k + 1, Len(chunk)))

Decode(chunk) == DecodeFrom(chunk, FirstIn(chunk, 1, {ByteC2, ByteA0}))

FeedParts(parts) ==
  [lines |-> SubSeq(parts, 1, Len(parts) - 1), buffer |-> parts[Len(parts)]]

\* buffer += chunk.decode(...); lines = buffer.split('\n');
\* buffer = lines.pop()
Feed(buf, chunk) == FeedParts(Split(buf \o Decode(chunk), "\n"))

(***************************************************************************)
(* Pipeline Driver: stream_decompress_and_process.                         *)
(***************************************************************************)
\* the literal 2000 of main.py lines 181 and 186, and ExperimentConfig.min_elo
MinElo == 2000

min_elo == 2000

\* chunk_size (1 MB in the program) and the flush threshold of line 205
\* (500000 rows in the program), scaled down
chunk_size == 48

MaxBufferedRows == 3

\* reader.read(chunk_size) may return fewer bytes than asked for: the short
\* reads the model tries besides a full chunk
MaxShortRead == 2

VARIABLES
  input,              \* the decompressed byte stream behind reader
  pos,                \* bytes of input already returned by reader.read
  buffer,             \* the incomplete last line
  lines,              \* lines of the current chunk not yet processed
  game_moves,         \* accumulated annotated move lines
  game_has_clk_eval,
  game_metadata,
  reject,
  csv_buffer,         \* rows not yet written
  csv_file,           \* rows written by csv_writer.writerows, in order
  finalized,          \* one record per call of process_finished_game
  pc                  \* "read", "lines", "done" or "crashed"

vars == <<input, pos, buffer, lines, game_moves, game_has_clk_eval,
          game_metadata, reject, csv_buffer, csv_file, finalized, pc>>

\* the driver's locals as one record, so that a handler is an operator
Locals ==
  [game_moves |-> game_moves, game_has_clk_eval |-> game_has_clk_eval,
   game_metadata |-> game_metadata, reject |-> reject,
   csv_buffer |-> csv_buffer, csv_file |-> csv_file,
   finalized |-> finalized, raised |-> FALSE]

InitLocals ==
  [game_moves |-> <<>>, game_has_clk_eval |-> FALSE,
   game_metadata |-> EmptyDict, reject |-> FALSE,
   csv_buffer |-> <<>>, csv_file |-> <<>>,
   finalized |-> <<>>, raised |-> FALSE]

\* a gate that forgets the rejection flag
GateIgnoresReject(st) == st.game_moves # <<>> /\ st.game_has_clk_eval

\* the condition of process_finished_game
Gate(st) == st.game_moves # <<>> /\ st.game_has_clk_eval /\ ~st.reject

Finished(st, r, p) ==
  [st EXCEPT !.csv_buffer = r.buf, !.raised = r.raised,
             !.finalized = Append(@,
               [moves |-> st.game_moves, metadata |-> st.game_metadata,
                has_clk_eval |-> st.game_has_clk_eval, reject |-> st.reject,
                rows |-> SubSeq(r.buf, Len(st.csv_buffer) + 1, Len(r.buf)),
                raised |-> r.raised,
                parser_rows |-> p.buf, parser_raised |-> p.raised])]

\* process_finished_game(): csv_buffer grows by the rows of the current
\* game.  finalized records the game that was handed over, the rows the
\* call appended, whether it raised, and what ChessParser.process_moves
\* appends for a fresh GameState holding the same game.
process_finished_game(st) ==
  Finished(st,
           IF Gate(st)
           THEN process_game_moves(st.game_moves, st.csv_buffer,
                                   st.game_metadata)
           ELSE [buf |-> st.csv_buffer, raised |-> FALSE],
           process_moves(GameState(st.game_moves, st.game_metadata,
                                   st.game_has_clk_eval, st.reject),
                         <<>>, min_elo))

\* a reset that leaves the annotated-move flag as it is
ResetGameKeepFlag(f) ==
  IF f.raised THEN f
  ELSE [f EXCEPT !.game_moves = <<>>,
                 !.game_metadata = EmptyDict, !.reject = FALSE]

\* lines 168-172: reset for the new game (not reached when the call raised)
ResetGame(f) ==
  IF f.raised THEN f
  ELSE [f EXCEPT !.game_moves = <<>>, !.game_has_clk_eval = FALSE,
                 !.game_metadata = EmptyDict, !.reject = FALSE]

\* lines 164-173: a new game starts
OnEvent(st) == ResetGame(process_finished_game(st))

QuotedOf(parts) == IF Len(parts) < 2 THEN Raise ELSE Ok(parts[2])

\* line.split('"')[1]
Quoted(line) == QuotedOf(Split(line, "\""))

\* int(line.split('"')[1])
EloOfQuoted(q) == IF q.ok THEN PyInt(q.val) ELSE Raise

EloOf(line) == EloOfQuoted(Quoted(line))

\* lines 178: game_metadata['TimeControl'] = ...
SetTimeControl(st, q) ==
  IF ~q.ok THEN [st EXCEPT !.raised = TRUE]
  ELSE [st EXCEPT !.game_metadata = DictSet(@, "TimeControl", q.val)]

\* the result of the Elo branches of should_reject_game
RejectOfElo(elo, min) == IF elo.ok THEN Ok(elo.val < min) ELSE Raise

\* ChessParser.should_reject_game(line, state, min_elo); it reads nothing of
\* the GameState it is given
should_reject_game(line, min) ==
  IF StartsWith(line, "[WhiteElo") THEN RejectOfElo(EloOf(line), min)
  ELSE IF StartsWith(line, "[BlackElo") THEN RejectOfElo(EloOf(line), min)
  ELSE IF StartsWith(line, "[Termination")
  THEN Ok(Contains(line, "Abandoned"))
  ELSE Ok(FALSE)

\* the flag follows the last Elo seen
SetEloLast(st, key, elo) ==
  IF ~elo.ok THEN [st EXCEPT !.raised = TRUE]
  ELSE [st EXCEPT !.reject = elo.val < MinElo,
                  !.game_metadata = DictSet(@, key, elo.val)]

\* lines 180-183 and 185-188
SetElo(st, key, elo) ==
  IF ~elo.ok THEN [st EXCEPT !.raised = TRUE]
  ELSE [st EXCEPT !.reject = @ \/ elo.val < MinElo,
                  !.game_metadata = DictSet(@, key, elo.val)]

\* lines 176-193: a metadata line
OnMetadata(st, line) ==
  IF StartsWith(line, "[TimeControl") THEN SetTimeControl(st, Quoted(line))
  ELSE IF StartsWith(line, "[WhiteElo") THEN SetElo(st, "WhiteElo", EloOf(line))
  ELSE IF StartsWith(line, "[BlackElo") THEN SetElo(st, "BlackElo", EloOf(line))
  ELSE IF StartsWith(line, "[Termination")
  THEN [st EXCEPT !.reject = @ \/ Contains(line, "Abandoned")]
  ELSE st

\* a driver that never writes before the end
FlushNever(st) == st

\* lines 204-207: the periodic write
FlushIfFull(st) ==
  IF Len(st.csv_buffer) > MaxBufferedRows
  THEN [st EXCEPT !.csv_file = @ \o st.csv_buffer, !.csv_buffer = <<>>]
  ELSE st

\* every non-tag line counted as an annotated move line
OnMoveAny(st, line) ==
  FlushIfFull([st EXCEPT !.game_has_clk_eval = TRUE,
                         !.game_moves = Append(@, line)])

\* lines 199-207: any other non-empty line
OnMove(st, line) ==
  FlushIfFull(
    IF Contains(line, "%clk") /\ Contains(line, "%eval")
    THEN [st EXCEPT !.game_has_clk_eval = TRUE,
                    !.game_moves = Append(@, line)]
    ELSE st)

\* lines 217-219: write any remaining rows (not reached when the call raised)
WriteRemaining(f) ==
  IF f.raised THEN f ELSE [f EXCEPT !.csv_file = @ \o f.csv_buffer]

\* the pending fragment handled as a last line
OnEndOfStreamWithFragment(st) ==
  WriteRemaining(process_finished_game(
    IF Strip(buffer) = "" THEN st
    ELSE IF StartsWith(Strip(buffer), "[") THEN OnMetadata(st, Strip(buffer))
    ELSE OnMove(st, Strip(buffer))))

\* lines 214-219: after the loop
OnEndOfStream(st) == WriteRemaining(process_finished_game(st))

IsEvent(line) == StartsWith(line, "[Event ")

IsMetadata(line) == ~IsEvent(line) /\ StartsWith(line, "[")

IsEmpty(line) == line = ""

IsMove(line) == ~StartsWith(line, "[") /\ line # ""

HandleStripped(st, line) ==
  IF IsEvent(line) THEN OnEvent(st)
  ELSE IF IsMetadata(line) THEN OnMetadata(st, line)
  ELSE IF IsEmpty(line) THEN st
  ELSE OnMove(st, line)

\* the body of `for line in lines` for one line
HandleLine(st, raw) == HandleStripped(st, Strip(raw))

\* the whole `for line in lines` loop over ls, stopping at an exception
RECURSIVE RunLines(_, _)
RunLines(st, ls) ==
  IF ls = <<>> \/ st.raised THEN st
  ELSE RunLines(HandleLine(st, Head(ls)), Tail(ls))

EndRun(st) == IF st.raised THEN st ELSE OnEndOfStream(st)

\* stream_decompress_and_process when reader.read returns all of `bytes` as
\* one chunk and then the empty chunk: the locals at the end of the run
SingleChunk(bytes) == EndRun(RunLines(InitLocals, Feed("", bytes).lines))

(***************************************************************************)
(* The inputs: byte streams put together from PGN lines.                   *)
(***************************************************************************)
EvA == "[Event \"A\"]"

EvB == "[Event \"B\"]"

WhiteOk == "[WhiteElo \"2200\"]"

WhiteLow == "[WhiteElo \"1500\"]"

WhiteBad == "[WhiteElo \"?\"]"

BlackOk == "[BlackElo \"2100\"]"

TimeCtl == "[TimeControl \"180+2\"]"

TimeCtlBad == "[TimeControl \"-\"]"

Abandoned == "[Termination \"Abandoned\"]"

NormalEnd == "[Termination \"Normal\"]"

Site == "[Site \"x\"]"

EloDiff == "[WhiteEloDiff \"12\"]"

\* the move line of the end-to-end scenario
MoveE2E == "1. e4 {[%eval 0.2][%clk 180]} e5 {[%eval 0.1][%clk 179]}"

Move1 == "1. e4 {[%eval 0.2][%clk 0:03:00]} e5 {[%eval 0.1][%clk 0:02:59]}"

\* Black's clock goes up by more than the increment
Move2 == "2. d4 { [%eval #-3] [%clk 0:02:50] } 2... d5 { [%eval 0.5] [%clk 0:03:05] }"

\* no black move text between the two annotations
MoveNoBlackMove == "1. e4 {[%eval 0.2][%clk 0:03:00]} {[%eval 0.1][%clk 0:02:59]}"

\* black move with an empty clock annotation
MoveNoBlackClock == "1. e4 {[%eval 0.2][%clk 0:03:00]} e5 {[%eval 0.1][%clk ]}"

\* unit 1 lacks the braces of its black move
MoveMalformed == "1. e4 {[%eval 0.2][%clk 0:03:00]} e5 2. d4 {[%eval 0.3][%clk 0:02:58]} d5 {[%eval #5][%clk 0:02:50]}"

\* a game that ended on White's move
MoveWhiteOnly == "3. Qh5 {[%eval 0.9][%clk 0:02:40]}"

MovePlain == "1. e4 e5"

\* a black clock with a non-numeric part
MoveBadBlackClock == "1. e4 {[%eval 0.2][%clk 0:03:00]} e5 {[%eval 0.1][%clk 0:0x:59]}"

TagVariants ==
  { <<WhiteOk, BlackOk, TimeCtl>>,
    <<WhiteOk, BlackOk>>,
    <<WhiteLow, BlackOk, TimeCtl>>,
    <<WhiteOk, Abandoned, TimeCtl>>,
    <<WhiteBad, BlackOk, TimeCtl>>,
    <<WhiteOk, TimeCtlBad>>,
    <<Site, "", NormalEnd, TimeCtl>> }

MoveVariants ==
  { <<>>,
    <<MoveE2E>>,
    <<Move1, Move2>>,
    <<Move2, Move1>>,
    <<MoveNoBlackMove, Move2>>,
    <<MoveNoBlackClock>>,
    <<MoveMalformed>>,
    <<Move1, MoveWhiteOnly>>,
    <<MovePlain>> }

\* every line followed by a newline
RECURSIVE Text(_)
Text(ls) == IF ls = <<>> THEN "" ELSE Head(ls) \o "\n" \o Text(Tail(ls))

GameB == <<EvB, WhiteOk, BlackOk, TimeCtl, Move1>>

\* one game A, alone or followed by game B
GameStreams ==
  { Text(<<EvA>> \o t \o m \o nxt) :
      t \in TagVariants, m \in MoveVariants, nxt \in {<<>>, GameB} }

SpecialStreams ==
  { "",
    \* lines before the first [Event line
    Text(<<WhiteLow, Move1>> \o GameB),
    Text(<<Move1, Move2>> \o GameB),
    \* a last line without its newline
    Text(<<EvA, WhiteOk, TimeCtl>>) \o Move1,
    Text(<<EvA, WhiteOk, TimeCtl, Move1>>) \o WhiteLow,
    Text(<<EvA, WhiteOk, TimeCtl, Move1>>) \o "[Event ",
    \* U+00A0 (bytes 0xC2 0xA0) in front of a line, CR LF line ends
    Text(<<EvA, WhiteLow, Move1>>) \o ByteC2 \o ByteA0 \o Text(GameB),
    \* a malformed TimeControl in the last game, after a game that gave rows
    Text(GameB \o <<EvA, WhiteOk, TimeCtlBad, Move1>>),
    \* three games: more rows than the flush threshold before the last one
    Text(<<EvA, WhiteOk, BlackOk, TimeCtl, Move1, Move2>> \o GameB \o GameB),
    \* a tag whose name starts with the name of a consumed tag
    Text(<<EvA, WhiteOk, BlackOk, EloDiff, TimeCtl, Move1>>),
    \* a black clock that int() rejects
    Text(<<EvA, WhiteOk, BlackOk, TimeCtl, MoveBadBlackClock>>),
    \* an unannotated move line and a blank line after an annotated one
    Text(<<EvA, WhiteOk, BlackOk, Site, TimeCtl, Move1, "", MovePlain>>),
    Text(<<EvA \o "\r", "  " \o WhiteOk \o "\r", TimeCtl, "\t" \o Move1 \o "\r">>) }

Streams == GameStreams \cup SpecialStreams

(***************************************************************************)
(* The state machine.                                                      *)
(***************************************************************************)
Init ==
  /\ input \in Streams
  /\ pos = 0
  /\ buffer = ""
  /\ lines = <<>>
  /\ game_moves = <<>>
  /\ game_has_clk_eval = FALSE
  /\ game_metadata = EmptyDict
  /\ reject = FALSE
  /\ csv_buffer = <<>>
  /\ csv_file = <<>>
  /\ finalized = <<>>
  /\ pc = "read"

\* the locals after a handler ran
SetLocals(st) ==
  /\ game_moves' = st.game_moves
  /\ game_has_clk_eval' = st.game_has_clk_eval
  /\ game_metadata' = st.game_metadata
  /\ reject' = st.reject
  /\ csv_buffer' = st.csv_buffer
  /\ csv_file' = st.csv_file
  /\ finalized' = st.finalized

KeepLocals ==
  UNCHANGED <<game_moves, game_has_clk_eval, game_metadata, reject,
              csv_buffer, csv_file, finalized>>

\* the sizes reader.read(chunk_size) can return when `left` bytes remain
ReadSizes(left) == (1..Min(MaxShortRead, left)) \cup {Min(chunk_size, left)}

Deliver(f, n) ==
  /\ pos' = pos + n
  /\ buffer' = f.buffer
  /\ lines' = f.lines
  /\ pc' = IF f.lines = <<>> THEN "read" ELSE "lines"

\* lines 151-159: a non-empty chunk arrives and is cut into lines
ReadChunk ==
  /\ pc = "read"
  /\ pos < Len(input)
  /\ \E n \in ReadSizes(Len(input) - pos) :
       Deliver(Feed(buffer, SubSeq(input, pos + 1, pos + n)), n)
  /\ KeepLocals
  /\ UNCHANGED input

\* one iteration of `for line in lines`; an exception leaves the loop where
\* it is
Iterate(st) ==
  /\ SetLocals(st)
  /\ lines' = IF st.raised THEN lines ELSE Tail(lines)
  /\ pc' = IF st.raised THEN "crashed"
           ELSE IF Tail(lines) = <<>> THEN "read" ELSE "lines"
  /\ UNCHANGED <<input, pos, buffer>>

EventLine ==
  /\ pc = "lines"
  /\ IsEvent(Strip(Head(lines)))
  /\ Iterate(OnEvent(Locals))

MetadataLine ==
  /\ pc = "lines"
  /\ IsMetadata(Strip(Head(lines)))
  /\ Iterate(OnMetadata(Locals, Strip(Head(lines))))

EmptyLine ==
  /\ pc = "lines"
  /\ IsEmpty(Strip(Head(lines)))
  /\ Iterate(Locals)

MoveLine ==
  /\ pc = "lines"
  /\ IsMove(Strip(Head(lines)))
  /\ Iterate(OnMove(Locals, Strip(Head(lines))))

Finish(st) ==
  /\ SetLocals(st)
  /\ pc' = IF st.raised THEN "crashed" ELSE "done"

\* lines 152-153 and 214-219: the empty chunk ends the loop
EndOfStream ==
  /\ pc = "read"
  /\ pos = Len(input)
  /\ Finish(OnEndOfStream(Locals))
  /\ UNCHANGED <<input, pos, buffer, lines>>

Next ==
  \/ ReadChunk
  \/ EventLine
  \/ MetadataLine
  \/ EmptyLine
  \/ MoveLine
  \/ EndOfStream

Spec == Init /\ [][Next]_vars

\* the driver is one sequential loop: it always takes its next step
FairSpec == Spec /\ WF_vars(Next)

TypeOK ==
  /\ pos \in 0..Len(input)
  /\ pc \in {"read", "lines", "done", "crashed"}
  /\ pc = "lines" => lines # <<>>
  /\ pc = "read" => lines = <<>>
  /\ reject \in BOOLEAN
  /\ game_has_clk_eval \in BOOLEAN

(***************************************************************************)
(* Properties.  finalized[1] is the (usually empty) stretch before the     *)
(* first [Event line; finalized[k + 1] is the k-th game of the stream.     *)
(***************************************************************************)
\* "w" or "b", the last character of a row's label
Side(row) == Ch(row.MoveNumber, Len(row.MoveNumber))

\* the move number a row's label starts with
MoveNo(row) == PyInt(SubSeq(row.MoveNumber, 1, Len(row.MoveNumber) - 1)).val

\* all rows handed to csv_buffer so far, in order
RECURSIVE AllRows(_)
AllRows(recs) ==
  IF recs = <<>> THEN <<>> ELSE Head(recs).rows \o AllRows(Tail(recs))

Terminated == pc \in {"done", "crashed"}

\* C1: at a game boundary ([Event line or end of stream) a game whose moves
\* list is empty, or that saw no annotated move, or that is rejected, appends
\* no row and raises no error, in main.py and in ChessParser.process_moves;
\* so rows are contributed only by a game that passes all three conditions.
C1_FinalizationGate ==
  [][ ( /\ Len(finalized') = Len(finalized) + 1
        /\ ~(game_moves # <<>> /\ game_has_clk_eval /\ ~reject) )
      => ( /\ csv_buffer' = csv_buffer
           /\ pc' # "crashed"
           /\ finalized'[Len(finalized')].parser_rows = <<>>
           /\ ~finalized'[Len(finalized')].parser_raised ) ]_vars

\* a rejected game with annotated moves was finalized without rows, and the
\* accepted game after it gave its rows
C1_Witness ==
  /\ pc = "done"
  /\ Len(finalized) = 3
  /\ finalized[2].reject
  /\ finalized[2].moves # <<>>
  /\ finalized[2].rows = <<>>
  /\ finalized[3].rows # <<>>

\* C2: however the input is cut into chunks, the run ends with the rows (and
\* the per-game results) of the run that gets the whole input as one chunk.
C2_ChunkInvariance ==
  Terminated =>
    /\ csv_file = SingleChunk(input).csv_file
    /\ finalized = SingleChunk(input).finalized

\* C3: once the transport has returned its empty chunk, the open game is
\* finalized and every row handed to the output buffer is in the sink.
\* (An exception inside the loop leaves `lines` non-empty, so a terminated
\* run with no line left is one that reached the end of the stream.)
C3_EndOfStreamWritten ==
  (Terminated /\ lines = <<>>) => csv_file = AllRows(finalized)

\* the complete lines of a byte stream
LinesOf(bytes) == Feed("", bytes).lines

EventIdx(ls) == {i \in 1..Len(ls) : IsEvent(Strip(ls[i]))}

NumGames(ls) == Cardinality(EventIdx(ls))

\* the index of the k-th [Event line
GameStart(ls, k) ==
  CHOOSE i \in EventIdx(ls) : Cardinality({j \in EventIdx(ls) : j <= i}) = k

GameEnd(ls, k) ==
  IF k = NumGames(ls) THEN Len(ls) ELSE GameStart(ls, k + 1) - 1

\* the lines of the k-th game: its [Event line up to the next boundary
GameLines(ls, k) == SubSeq(ls, GameStart(ls, k), GameEnd(ls, k))

\* the run over the lines of one game alone
Solo(ls) == EndRun(RunLines(InitLocals, ls))

\* C4: every game of the stream that is sound on its own gets, whatever the
\* other games contain, the rows it gets when its lines are the whole stream.
C4_GameIsolation ==
  Terminated =>
    \A k \in 1..NumGames(LinesOf(input)) :
      ~Solo(GameLines(LinesOf(input), k)).raised =>
        /\ Len(finalized) > k
        /\ finalized[k + 1].rows
             = Solo(GameLines(LinesOf(input), k)).finalized[2].rows

\* the stream of the end-to-end scenario: game A, then [Event "B"]
E2EStream == Text(<<EvA, WhiteOk, BlackOk, TimeCtl, MoveE2E>> \o GameB)

\* C5 as stated: game A gives ("1w", 0.2, 0.0, 180, 2), ("1b", 0.1, 0.0, 179, 3)
C5_Original ==
  (input = E2EStream /\ Len(finalized) >= 2) =>
    finalized[2].rows = << Row("1w", 20, 0, 180, 2), Row("1b", 10, 0, 179, 3) >>

\* C5: in the end-to-end scenario game A gives exactly the two rows
\* ("1w", 0.2, 0, 0, 182) and ("1b", 0.1, 0, 0, 182), in this order, on both
\* emitters, and at the [Event "B"] boundary the buffer holds nothing else:
\* the clock texts 180 and 179 have no colon, so TimeLeft is 0 and TimeSpent
\* is 180 - 0 + 2.
C5_EndToEnd ==
  (input = E2EStream /\ Len(finalized) >= 2) =>
    /\ finalized[2].rows
         = << Row("1w", 20, 0, 0, 182), Row("1b", 10, 0, 0, 182) >>
    /\ finalized[2].parser_rows = finalized[2].rows
    /\ Len(finalized) = 2 => csv_buffer = finalized[2].rows

\* game A of the scenario has just been finalized by the [Event "B"] line
C5_Witness ==
  /\ input = E2EStream
  /\ Len(finalized) = 2
  /\ Len(csv_buffer) = 2
  /\ game_moves = <<>>

\* rows a and b, adjacent in this order, respect the move order
OrderedPair(a, b) ==
  \/ MoveNo(a) < MoveNo(b)
  \/ MoveNo(a) = MoveNo(b) /\ Side(a) = "w" /\ Side(b) = "b"

\* a row Nb comes right after the row Nw of the same move number
BlackFollowsWhite(rows) ==
  \A i \in 1..Len(rows) :
    Side(rows[i]) = "b" =>
      /\ i > 1
      /\ Side(rows[i - 1]) = "w"
      /\ SubSeq(rows[i - 1].MoveNumber, 1, Len(rows[i - 1].MoveNumber) - 1)
           = SubSeq(rows[i].MoveNumber, 1, Len(rows[i].MoveNumber) - 1)

MoveOrder(rows) ==
  \A i \in 1..(Len(rows) - 1) : OrderedPair(rows[i], rows[i + 1])

\* the matched units carry strictly increasing move numbers
UnitsIncreasing(ms) ==
  \A i \in 1..(Len(ms) - 1) :
    PyInt(ms[i].move_number).val < PyInt(ms[i + 1].move_number).val

\* C6 as stated: for any accumulated move lines the labels of a game are
\* strictly increasing by move number, Nw immediately before Nb
C6_Original ==
  \A g \in 1..Len(finalized) :
    MoveOrder(finalized[g].rows) /\ BlackFollowsWhite(finalized[g].rows)

\* C6: in every finalized game a row Nb is immediately preceded by the row
\* Nw of the same move number, and the labels are strictly increasing by
\* move number whenever the move numbers of the matched units are strictly
\* increasing in the accumulated move lines (the emitter keeps source order).
C6_RowOrder ==
  \A g \in 1..Len(finalized) :
    /\ BlackFollowsWhite(finalized[g].rows)
    /\ BlackFollowsWhite(finalized[g].parser_rows)
    /\ UnitsIncreasing(AllMatches(finalized[g].moves)) =>
         MoveOrder(finalized[g].rows) /\ MoveOrder(finalized[g].parser_rows)

\* a game of two units in source order gave the rows 1w 1b 2w 2b
C6_Witness ==
  \E g \in 1..Len(finalized) :
    /\ Len(finalized[g].rows) = 4
    /\ UnitsIncreasing(AllMatches(finalized[g].moves))
    /\ finalized[g].rows[2].MoveNumber = "1b"
    /\ finalized[g].rows[4].MoveNumber = "2b"

HasMalformedTag(bytes) ==
  Contains(bytes, WhiteBad) \/ Contains(bytes, TimeCtlBad)

\* C7: a stream with a non-integer Elo or a TimeControl that is not
\* base+increment never makes the run end in an exception.
C7_MalformedTagsNeverAbort == pc = "crashed" => ~HasMalformedTag(input)

\* the first row is derived from initialSeconds = 0, incrementSeconds = 0
FirstRowFromZero(rows) ==
  rows # <<>> => rows[1].TimeSpent = 0 - rows[1].TimeLeft + 0

\* C8: a finalized game without a TimeControl tag gets its TimeSpent from
\* initialSeconds = 0 and incrementSeconds = 0 on every path that emits rows.
C8_MissingTimeControlIsZero ==
  \A g \in 1..Len(finalized) :
    "TimeControl" \notin DOMAIN finalized[g].metadata =>
      /\ FirstRowFromZero(finalized[g].parser_rows)
      /\ FirstRowFromZero(finalized[g].rows)

\* the rows before row i that belong to the side of row i
SameSideBefore(rows, i) == {j \in 1..(i - 1) : Side(rows[j]) = Side(rows[i])}

Greatest(S) == CHOOSE x \in S : \A y \in S : y <= x

\* the clock the side of row i had before: its TimeLeft in its previous
\* emitted row, the initial time on its first row
ClockBefore(rows, i, initial) ==
  IF SameSideBefore(rows, i) = {} THEN initial
  ELSE rows[Greatest(SameSideBefore(rows, i))].TimeLeft

TimeSpentLaw(rows, tc) ==
  \A i \in 1..Len(rows) :
    rows[i].TimeSpent
      = ClockBefore(rows, i, tc[1]) - rows[i].TimeLeft + tc[2]

\* C9: in a game with a TimeControl tag every row's TimeSpent is the clock
\* of that side in its previous emitted row (the initial time on its first
\* row) minus its clock, plus the increment, unclamped, on both emitters.
C9_TimeSpentDerivation ==
  \A g \in 1..Len(finalized) :
    ( /\ "TimeControl" \in DOMAIN finalized[g].metadata
      /\ parse_time_control(finalized[g].metadata["TimeControl"]).ok ) =>
      /\ TimeSpentLaw(finalized[g].parser_rows,
                      parse_time_control(finalized[g].metadata["TimeControl"]).val)
      /\ TimeSpentLaw(finalized[g].rows,
                      parse_time_control(finalized[g].metadata["TimeControl"]).val)

\* the evaluation before row i: 0 at the start of the game
EvalBefore(rows, i) == IF i = 1 THEN 0 ELSE rows[i - 1].Eval

Clamp(x) == IF x > 0 THEN x ELSE 0

LossLaw(rows) ==
  \A i \in 1..Len(rows) :
    /\ rows[i].CentipawnLoss >= 0
    /\ rows[i].CentipawnLoss
         = IF Side(rows[i]) = "w"
           THEN Clamp(EvalBefore(rows, i) - rows[i].Eval)
           ELSE Clamp(rows[i].Eval - EvalBefore(rows, i))

\* C10: in every emitted row CentipawnLoss is max(0, previous - eval) for
\* White and max(0, eval - previous) for Black, previous being 0 at the
\* start of the game and then the evaluation of the row before; so it is
\* never negative.
C10_CentipawnLoss ==
  \A g \in 1..Len(finalized) :
    LossLaw(finalized[g].rows) /\ LossLaw(finalized[g].parser_rows)

\* a game gave a White row and a Black row with a positive loss, and rows
\* whose unclamped difference is negative
C10_Witness ==
  \E g \in 1..Len(finalized) :
    /\ Len(finalized[g].rows) = 4
    /\ finalized[g].rows[1].CentipawnLoss = 0
    /\ finalized[g].rows[1].Eval > 0
    /\ finalized[g].rows[3].CentipawnLoss > 0
    /\ finalized[g].rows[4].CentipawnLoss > 0

\* the line the loop handles next, stripped
Line == Strip(Head(lines))

\* the input without its last `n` characters
WithoutLast(bytes, n) == SubSeq(bytes, 1, Len(bytes) - n)

\* C11: the text after the last newline is never handled as a line.  The
\* end of the stream finalizes the game exactly as the complete lines left
\* it and changes nothing else of it, and a run that ends with a pending
\* fragment has the per-game results and written rows of the run over the
\* input without the fragment.
C11_FragmentDiscarded ==
  /\ []( (pc = "done" /\ buffer # "") =>
           /\ finalized
                = SingleChunk(WithoutLast(input, Len(buffer))).finalized
           /\ csv_file
                = SingleChunk(WithoutLast(input, Len(buffer))).csv_file )
  /\ [][ (pc = "read" /\ pc' \in {"done", "crashed"}) =>
           /\ Len(finalized') = Len(finalized) + 1
           /\ finalized'[Len(finalized')].moves = game_moves
           /\ finalized'[Len(finalized')].metadata = game_metadata
           /\ finalized'[Len(finalized')].reject = reject
           /\ finalized'[Len(finalized')].has_clk_eval = game_has_clk_eval
           /\ game_moves' = game_moves
           /\ game_metadata' = game_metadata
           /\ reject' = reject ]_vars

\* the run ended with an annotated move line pending, and the game it would
\* have belonged to gave no row
C11_Witness ==
  /\ pc = "done"
  /\ buffer = Move1
  /\ finalized[Len(finalized)].moves = <<>>
  /\ csv_file = <<>>

\* C12: within one game the rejection flag only goes from false to true: a
\* step that takes it back to false is the handling of an [Event line.  On
\* a tag line that raises nothing the flag becomes "it was set, or
\* should_reject_game says so for this line".
C12_StickyRejection ==
  [][ /\ (reject /\ ~reject') => (pc = "lines" /\ IsEvent(Line))
      /\ (pc = "lines" /\ IsMetadata(Line) /\ pc' # "crashed") =>
           /\ should_reject_game(Line, min_elo).ok
           /\ reject' = (reject \/ should_reject_game(Line, min_elo).val)
      /\ (pc = "lines" /\ ~IsMetadata(Line) /\ ~IsEvent(Line)) =>
           reject' = reject ]_vars

\* a game rejected for White's Elo has since seen Black's Elo above the
\* threshold and an annotated move line, and is still rejected
C12_Witness ==
  /\ reject
  /\ "WhiteElo" \in DOMAIN game_metadata
  /\ game_metadata["WhiteElo"] < MinElo
  /\ "BlackElo" \in DOMAIN game_metadata
  /\ game_metadata["BlackElo"] >= MinElo
  /\ game_moves # <<>>

\* the most rows one finalized game gave
RECURSIVE MaxRows(_)
MaxRows(recs) ==
  IF recs = <<>> THEN 0
  ELSE IF Len(Head(recs).rows) > MaxRows(Tail(recs))
       THEN Len(Head(recs).rows)
       ELSE MaxRows(Tail(recs))

\* C13 as stated: a line handled while the buffer is over the threshold
\* leaves it written and cleared
C13_Original ==
  [][ (pc = "lines" /\ Len(csv_buffer) > MaxBufferedRows /\ pc' # "crashed")
        => Len(csv_buffer') <= MaxBufferedRows ]_vars

\* C13: the threshold is looked at only at the end of the handling of a
\* non-empty line that is no tag line: if the buffer then holds more rows
\* than the threshold it is written to the sink and cleared; [Event lines,
\* tag lines and blank lines write nothing.  The number of unwritten rows
\* never exceeds the threshold plus the rows of one game.
C13_Backpressure ==
  /\ [](Len(csv_buffer) <= MaxBufferedRows + MaxRows(finalized))
  /\ [][ /\ (pc = "lines" /\ IsMove(Line)) =>
              IF Len(csv_buffer) > MaxBufferedRows
              THEN csv_buffer' = <<>> /\ csv_file' = csv_file \o csv_buffer
              ELSE csv_buffer' = csv_buffer /\ csv_file' = csv_file
         /\ (pc = "lines" /\ ~IsMove(Line)) => csv_file' = csv_file ]_vars

\* rows were written in the middle of the stream, while handling a move
\* line of the next game
C13_Witness ==
  /\ pc \in {"read", "lines"}
  /\ csv_file # <<>>
  /\ csv_buffer = <<>>
  /\ game_moves # <<>>

\* the second unit of MoveMalformed, which has the full shape
Unit2Alone == "2. d4 {[%eval 0.3][%clk 0:02:58]} d5 {[%eval #5][%clk 0:02:50]}"

\* a game that passed the gate and whose rows were appended without an error
Emitted(rec) == rec.moves # <<>> /\ rec.has_clk_eval /\ ~rec.reject /\ ~rec.raised

\* C14: in the line "1. e4 {..} e5 2. d4 {..} d5 {..}" unit 1 lacks the
\* braces of its black move: it yields no row, and unit 2 yields the rows
\* it yields when it is the whole line.
C14_MalformedUnitSkipped ==
  \A g \in 1..Len(finalized) :
    (Emitted(finalized[g]) /\ finalized[g].moves = <<MoveMalformed>>) =>
      /\ finalized[g].rows
           = process_game_moves(<<Unit2Alone>>, <<>>, finalized[g].metadata).buf
      /\ finalized[g].parser_rows
           = process_moves(GameState(<<Unit2Alone>>, finalized[g].metadata,
                                     TRUE, FALSE), <<>>, min_elo).buf

\* the labels of a sequence of rows
Labels(rows) == [i \in 1..Len(rows) |-> rows[i].MoveNumber]

\* C15: the move lines "1. e4 {..} e5 {..}" and "3. Qh5 {..}" (a unit with
\* both sides, then a last unit with White's move only) give the rows 1w,
\* 1b, 3w, the last one with the evaluation and clock of the last unit.
C15_OptionalBlack ==
  \A g \in 1..Len(finalized) :
    (Emitted(finalized[g]) /\ finalized[g].moves = <<Move1, MoveWhiteOnly>>) =>
      /\ Labels(finalized[g].rows) = <<"1w", "1b", "3w">>
      /\ finalized[g].rows[3].Eval = 90
      /\ finalized[g].rows[3].TimeLeft = 160
      /\ Labels(finalized[g].parser_rows) = <<"1w", "1b", "3w">>

\* C16: what the first [Event line of the stream finalizes is empty: the
\* lines before it were not accumulated and give no row.
C16_IdleNotAccumulated ==
  Len(finalized) >= 2 =>
    /\ finalized[1].moves = <<>>
    /\ DOMAIN finalized[1].metadata = {}
    /\ ~finalized[1].reject
    /\ ~finalized[1].has_clk_eval
    /\ finalized[1].rows = <<>>

TagNameTo(line, e) ==
  IF e = 0 THEN SubSeq(line, 2, Len(line)) ELSE SubSeq(line, 2, e - 1)

\* the name of a tag line: the text between "[" and the first blank
TagName(line) == TagNameTo(line, FirstIn(line, 2, {" ", "\t", "\"", "]"}))

ConsumedTags == {"Event", "WhiteElo", "BlackElo", "Termination", "TimeControl"}

ConsumedPrefixes ==
  {"[Event ", "[WhiteElo", "[BlackElo", "[Termination", "[TimeControl"}

Unannotated(line) ==
  /\ line # ""
  /\ ~StartsWith(line, "[")
  /\ ~(Contains(line, "%clk") /\ Contains(line, "%eval"))

\* the lines C17 names: blank, a tag of another name, or unannotated
IgnoredByName(line) ==
  \/ line = ""
  \/ StartsWith(line, "[") /\ TagName(line) \notin ConsumedTags
  \/ Unannotated(line)

\* the same with the tag test the code makes: by the start of the line
IgnoredByPrefix(line) ==
  \/ line = ""
  \/ StartsWith(line, "[") /\ \A p \in ConsumedPrefixes : ~StartsWith(line, p)
  \/ Unannotated(line)

\* a step that leaves the game and the emitted rows as they were
GameUnchanged ==
  /\ game_moves' = game_moves
  /\ game_metadata' = game_metadata
  /\ game_has_clk_eval' = game_has_clk_eval
  /\ reject' = reject
  /\ finalized' = finalized
  /\ csv_file' \o csv_buffer' = csv_file \o csv_buffer
  /\ pc' # "crashed"

AllAnnotated(moves) ==
  \A i \in 1..Len(moves) :
    Contains(moves[i], "%eval") /\ Contains(moves[i], "%clk")

\* C18: in every state game_has_clk_eval is true exactly when game_moves is
\* non-empty, and every element of game_moves has a %eval and a %clk; the
\* same holds of every game handed to process_finished_game.
C18_FlagIffMoves ==
  /\ game_has_clk_eval <=> game_moves # <<>>
  /\ AllAnnotated(game_moves)
  /\ \A g \in 1..Len(finalized) :
       finalized[g].has_clk_eval <=> finalized[g].moves # <<>>

\* two move lines are accumulated in the second game of the stream
C18_Witness ==
  /\ Len(finalized) = 2
  /\ Len(game_moves) = 2
  /\ game_has_clk_eval

\* rows of csv_buffer that csv_writer has not been given
Unwritten == IF pc = "done" THEN <<>> ELSE csv_buffer

\* C19: the written rows followed by the unwritten rows are the rows of the
\* finalized games in order, and when the run has ended every row is
\* written.
C19_SinkIntegrity ==
  /\ csv_file \o Unwritten = AllRows(finalized)
  /\ Terminated => Unwritten = <<>>

IsWhiteRow(row) == Side(row) = "w"

IsBlackRow(row) == Side(row) = "b"

\* TimeSpent summed over the first k rows
RECURSIVE SumSpent(_, _)
SumSpent(rows, k) ==
  IF k = 0 THEN 0 ELSE rows[k].TimeSpent + SumSpent(rows, k - 1)

Telescopes(rows, tc) ==
  \A k \in 1..Len(rows) :
    SumSpent(rows, k) = tc[1] - rows[k].TimeLeft + k * tc[2]

TelescopesBothSides(rows, tc) ==
  /\ Telescopes(SelectSeq(rows, IsWhiteRow), tc)
  /\ Telescopes(SelectSeq(rows, IsBlackRow), tc)

\* C20: in a game with a TimeControl tag, for each side, the TimeSpent of
\* its first k rows add up to the initial time minus its TimeLeft in its
\* k-th row plus k increments, on both emitters.
C20_Telescoping ==
  \A g \in 1..Len(finalized) :
    ( /\ "TimeControl" \in DOMAIN finalized[g].metadata
      /\ parse_time_control(finalized[g].metadata["TimeControl"]).ok ) =>
      /\ TelescopesBothSides(finalized[g].parser_rows,
           parse_time_control(finalized[g].metadata["TimeControl"]).val)
      /\ TelescopesBothSides(finalized[g].rows,
           parse_time_control(finalized[g].metadata["TimeControl"]).val)

\* every matched unit has black move text and black clock text
AllBlackPresent(ms) ==
  \A i \in 1..Len(ms) : Strip(ms[i].black_move) # "" /\ ms[i].black_clock # ""

\* an accepted game with a TimeControl tag whose matched units all have a
\* black move and a black clock
BothSidesGame(rec) ==
  /\ rec.moves # <<>>
  /\ rec.has_clk_eval
  /\ ~rec.reject
  /\ "TimeControl" \in DOMAIN rec.metadata
  /\ AllBlackPresent(AllMatches(rec.moves))

IsPrefix(a, b) == Len(a) <= Len(b) /\ SubSeq(b, 1, Len(a)) = a

\* C21 as stated: for every such game the two emitters append the same rows
C21_Original ==
  \A g \in 1..Len(finalized) :
    BothSidesGame(finalized[g]) =>
      finalized[g].rows = finalized[g].parser_rows

\* C21: for every accepted game with a TimeControl tag whose matched units
\* all have black move text and black clock text, process_game_moves raises
\* exactly when ChessParser.process_moves on a fresh GameState raises; when
\* neither raises they append the identical sequence of rows; when they
\* raise, the rows of process_game_moves are a prefix of those of
\* process_moves, which may hold in addition the white row of the unit that
\* raised.
C21_EmittersAgree ==
  \A g \in 1..Len(finalized) :
    BothSidesGame(finalized[g]) =>
      /\ finalized[g].raised <=> finalized[g].parser_raised
      /\ ~finalized[g].raised =>
           finalized[g].rows = finalized[g].parser_rows
      /\ finalized[g].raised =>
           /\ IsPrefix(finalized[g].rows, finalized[g].parser_rows)
           /\ Len(finalized[g].parser_rows) <= Len(finalized[g].rows) + 1

\* a game of two units with both sides, one of them with a mate score and a
\* negative time spent, gave the same four rows on both emitters
C21_Witness ==
  \E g \in 1..Len(finalized) :
    /\ BothSidesGame(finalized[g])
    /\ Len(finalized[g].rows) = 4
    /\ finalized[g].rows[3].Eval = -MateEval
    /\ finalized[g].rows[4].TimeSpent < 0
    /\ finalized[g].parser_rows = finalized[g].rows
====
